---- MODULE Spec2Model ----
(***************************************************************************)
(* Model of the CloudRF command-line client, core/CloudRF.py.              *)
(*                                                                         *)
(* CloudRF.__init__ validates its inputs (request type, API key, files,    *)
(* JSON template, CSV), then sends one HTTP request per CSV row (or one    *)
(* request with the plain template) and always ends in sys.exit or in an   *)
(* uncaught exception.                                                     *)
(*                                                                         *)
(* Python strings are sequences of one-character strings, so that          *)
(* str.split, str.isnumeric and len are computed, not assumed.             *)
(* JSON values are records [type, s, o]: s is the text of a string or      *)
(* number, o the dict of an object (a function from keys to JSON values).  *)
(***************************************************************************)
EXTENDS Integers, Sequences, FiniteSets, TLC

VARIABLES
    requestType,     \* self.requestType
    api_key,         \* self.__arguments.api_key
    input_csv,       \* self.__arguments.input_csv: TRUE when a path was given
    verbose,         \* self.__arguments.verbose
    pc,              \* position in CloudRF.__init__
    jsonTemplate,    \* self.__jsonTemplate (the object that rows mutate in place)
    fieldnames,      \* csv.DictReader.fieldnames of the open CSV
    recordsRead,     \* data records consumed from the CSV so far
    csvInputList,    \* returnList / self.__csvInputList
    rowIdx,          \* position of the for loop over self.__csvInputList
    loadedTemplate,  \* history: the value json.load returned
    sent,            \* history: bodies handed to requests.post, in order
    outcomes,        \* history: what each requests.post produced
    stdout,          \* history: what print wrote about responses
    exitKind,        \* "running", "sys.exit" or "traceback"
    exitMsg          \* category of the sys.exit message or uncaught exception

vars == <<requestType, api_key, input_csv, verbose, pc, jsonTemplate, fieldnames,
          recordsRead, csvInputList, rowIdx, loadedTemplate, sent, outcomes,
          stdout, exitKind, exitMsg>>

(***************************************************************************)
(* Bounds of the model.                                                    *)
(***************************************************************************)
MaxCols == 2
MaxRows == 2
MaxKeyParts == 3
MaxUidLen == 2

(***************************************************************************)
(* Python strings.                                                         *)
(***************************************************************************)
\* The characters c with c.isnumeric(): the 1872 characters of Unicode 14 that
\* have a numeric value, the ten ASCII digits among them.  A character
\* above U+00FF is written as its code point, "U+0660" for ARABIC-INDIC
\* DIGIT ZERO.
NumericChars ==
    {"0", "1", "2", "3", "4", "5", "6", "7", "8", "9", "²", "³", "¹", "¼",
     "½", "¾", "U+0660", "U+0661", "U+0662", "U+0663", "U+0664", "U+0665",
     "U+0666", "U+0667", "U+0668", "U+0669", "U+06F0", "U+06F1", "U+06F2",
     "U+06F3", "U+06F4", "U+06F5", "U+06F6", "U+06F7", "U+06F8", "U+06F9",
     "U+07C0", "U+07C1", "U+07C2", "U+07C3", "U+07C4", "U+07C5", "U+07C6",
     "U+07C7", "U+07C8", "U+07C9", "U+0966", "U+0967", "U+0968", "U+0969",
     "U+096A", "U+096B", "U+096C", "U+096D", "U+096E", "U+096F", "U+09E6",
     "U+09E7", "U+09E8", "U+09E9", "U+09EA", "U+09EB", "U+09EC", "U+09ED",
     "U+09EE", "U+09EF", "U+09F4", "U+09F5", "U+09F6", "U+09F7", "U+09F8",
     "U+09F9", "U+0A66", "U+0A67", "U+0A68", "U+0A69", "U+0A6A", "U+0A6B",
     "U+0A6C", "U+0A6D", "U+0A6E", "U+0A6F", "U+0AE6", "U+0AE7", "U+0AE8",
     "U+0AE9", "U+0AEA", "U+0AEB", "U+0AEC", "U+0AED", "U+0AEE", "U+0AEF",
     "U+0B66", "U+0B67", "U+0B68", "U+0B69", "U+0B6A", "U+0B6B", "U+0B6C",
     "U+0B6D", "U+0B6E", "U+0B6F", "U+0B72", "U+0B73", "U+0B74", "U+0B75",
     "U+0B76", "U+0B77", "U+0BE6", "U+0BE7", "U+0BE8", "U+0BE9", "U+0BEA",
     "U+0BEB", "U+0BEC", "U+0BED", "U+0BEE", "U+0BEF", "U+0BF0", "U+0BF1",
     "U+0BF2", "U+0C66", "U+0C67", "U+0C68", "U+0C69", "U+0C6A", "U+0C6B",
     "U+0C6C", "U+0C6D", "U+0C6E", "U+0C6F", "U+0C78", "U+0C79", "U+0C7A",
     "U+0C7B", "U+0C7C", "U+0C7D", "U+0C7E", "U+0CE6", "U+0CE7", "U+0CE8",
     "U+0CE9", "U+0CEA", "U+0CEB", "U+0CEC", "U+0CED", "U+0CEE", "U+0CEF",
     "U+0D58", "U+0D59", "U+0D5A", "U+0D5B", "U+0D5C", "U+0D5D", "U+0D5E",
     "U+0D66", "U+0D67", "U+0D68", "U+0D69", "U+0D6A", "U+0D6B", "U+0D6C",
     "U+0D6D", "U+0D6E", "U+0D6F", "U+0D70", "U+0D71", "U+0D72", "U+0D73",
     "U+0D74", "U+0D75", "U+0D76", "U+0D77", "U+0D78", "U+0DE6", "U+0DE7",
     "U+0DE8", "U+0DE9", "U+0DEA", "U+0DEB", "U+0DEC", "U+0DED", "U+0DEE",
     "U+0DEF", "U+0E50", "U+0E51", "U+0E52", "U+0E53", "U+0E54", "U+0E55",
     "U+0E56", "U+0E57", "U+0E58", "U+0E59", "U+0ED0", "U+0ED1", "U+0ED2",
     "U+0ED3", "U+0ED4", "U+0ED5", "U+0ED6", "U+0ED7", "U+0ED8", "U+0ED9",
     "U+0F20", "U+0F21", "U+0F22", "U+0F23", "U+0F24", "U+0F25", "U+0F26",
     "U+0F27", "U+0F28", "U+0F29", "U+0F2A", "U+0F2B", "U+0F2C", "U+0F2D",
     "U+0F2E", "U+0F2F", "U+0F30", "U+0F31", "U+0F32", "U+0F33", "U+1040",
     "U+1041", "U+1042", "U+1043", "U+1044", "U+1045", "U+1046", "U+1047",
     "U+1048", "U+1049", "U+1090", "U+1091", "U+1092", "U+1093", "U+1094",
     "U+1095", "U+1096", "U+1097", "U+1098", "U+1099", "U+1369", "U+136A",
     "U+136B", "U+136C", "U+136D", "U+136E", "U+136F", "U+1370", "U+1371",
     "U+1372", "U+1373", "U+1374", "U+1375", "U+1376", "U+1377", "U+1378",
     "U+1379", "U+137A", "U+137B", "U+137C", "U+16EE", "U+16EF", "U+16F0",
     "U+17E0", "U+17E1", "U+17E2", "U+17E3", "U+17E4", "U+17E5", "U+17E6",
     "U+17E7", "U+17E8", "U+17E9", "U+17F0", "U+17F1", "U+17F2", "U+17F3",
     "U+17F4", "U+17F5", "U+17F6", "U+17F7", "U+17F8", "U+17F9", "U+1810",
     "U+1811", "U+1812", "U+1813", "U+1814", "U+1815", "U+1816", "U+1817",
     "U+1818", "U+1819", "U+1946", "U+1947", "U+1948", "U+1949", "U+194A",
     "U+194B", "U+194C", "U+194D", "U+194E", "U+194F", "U+19D0", "U+19D1",
     "U+19D2", "U+19D3", "U+19D4", "U+19D5", "U+19D6", "U+19D7", "U+19D8",
     "U+19D9", "U+19DA", "U+1A80", "U+1A81", "U+1A82", "U+1A83", "U+1A84",
     "U+1A85", "U+1A86", "U+1A87", "U+1A88", "U+1A89", "U+1A90", "U+1A91",
     "U+1A92", "U+1A93", "U+1A94", "U+1A95", "U+1A96", "U+1A97", "U+1A98",
     "U+1A99", "U+1B50", "U+1B51", "U+1B52", "U+1B53", "U+1B54", "U+1B55",
     "U+1B56", "U+1B57", "U+1B58", "U+1B59", "U+1BB0", "U+1BB1", "U+1BB2",
     "U+1BB3", "U+1BB4", "U+1BB5", "U+1BB6", "U+1BB7", "U+1BB8", "U+1BB9",
     "U+1C40", "U+1C41", "U+1C42", "U+1C43", "U+1C44", "U+1C45", "U+1C46",
     "U+1C47", "U+1C48", "U+1C49", "U+1C50", "U+1C51", "U+1C52", "U+1C53",
     "U+1C54", "U+1C55", "U+1C56", "U+1C57", "U+1C58", "U+1C59", "U+2070",
     "U+2074", "U+2075", "U+2076", "U+2077", "U+2078", "U+2079", "U+2080",
     "U+2081", "U+2082", "U+2083", "U+2084", "U+2085", "U+2086", "U+2087",
     "U+2088", "U+2089", "U+2150", "U+2151", "U+2152", "U+2153", "U+2154",
     "U+2155", "U+2156", "U+2157", "U+2158", "U+2159", "U+215A", "U+215B",
     "U+215C", "U+215D", "U+215E", "U+215F", "U+2160", "U+2161", "U+2162",
     "U+2163", "U+2164", "U+2165", "U+2166", "U+2167", "U+2168", "U+2169",
     "U+216A", "U+216B", "U+216C", "U+216D", "U+216E", "U+216F", "U+2170",
     "U+2171", "U+2172", "U+2173", "U+2174", "U+2175", "U+2176", "U+2177",
     "U+2178", "U+2179", "U+217A", "U+217B", "U+217C", "U+217D", "U+217E",
     "U+217F", "U+2180", "U+2181", "U+2182", "U+2185", "U+2186", "U+2187",
     "U+2188", "U+2189", "U+2460", "U+2461", "U+2462", "U+2463", "U+2464",
     "U+2465", "U+2466", "U+2467", "U+2468", "U+2469", "U+246A", "U+246B",
     "U+246C", "U+246D", "U+246E", "U+246F", "U+2470", "U+2471", "U+2472",
     "U+2473", "U+2474", "U+2475", "U+2476", "U+2477", "U+2478", "U+2479",
     "U+247A", "U+247B", "U+247C", "U+247D", "U+247E", "U+247F", "U+2480",
     "U+2481", "U+2482", "U+2483", "U+2484", "U+2485", "U+2486", "U+2487",
     "U+2488", "U+2489", "U+248A", "U+248B", "U+248C", "U+248D", "U+248E",
     "U+248F", "U+2490", "U+2491", "U+2492", "U+2493", "U+2494", "U+2495",
     "U+2496", "U+2497", "U+2498", "U+2499", "U+249A", "U+249B", "U+24EA",
     "U+24EB", "U+24EC", "U+24ED", "U+24EE", "U+24EF", "U+24F0", "U+24F1",
     "U+24F2", "U+24F3", "U+24F4", "U+24F5", "U+24F6", "U+24F7", "U+24F8",
     "U+24F9", "U+24FA", "U+24FB", "U+24FC", "U+24FD", "U+24FE", "U+24FF",
     "U+2776", "U+2777", "U+2778", "U+2779", "U+277A", "U+277B", "U+277C",
     "U+277D", "U+277E", "U+277F", "U+2780", "U+2781", "U+2782", "U+2783",
     "U+2784", "U+2785", "U+2786", "U+2787", "U+2788", "U+2789", "U+278A",
     "U+278B", "U+278C", "U+278D", "U+278E", "U+278F", "U+2790", "U+2791",
     "U+2792", "U+2793", "U+2CFD", "U+3007", "U+3021", "U+3022", "U+3023",
     "U+3024", "U+3025", "U+3026", "U+3027", "U+3028", "U+3029", "U+3038",
     "U+3039", "U+303A", "U+3192", "U+3193", "U+3194", "U+3195", "U+3220",
     "U+3221", "U+3222", "U+3223", "U+3224", "U+3225", "U+3226", "U+3227",
     "U+3228", "U+3229", "U+3248", "U+3249", "U+324A", "U+324B", "U+324C",
     "U+324D", "U+324E", "U+324F", "U+3251", "U+3252", "U+3253", "U+3254",
     "U+3255", "U+3256", "U+3257", "U+3258", "U+3259", "U+325A", "U+325B",
     "U+325C", "U+325D", "U+325E", "U+325F", "U+3280", "U+3281", "U+3282",
     "U+3283", "U+3284", "U+3285", "U+3286", "U+3287", "U+3288", "U+3289",
     "U+32B1", "U+32B2", "U+32B3", "U+32B4", "U+32B5", "U+32B6", "U+32B7",
     "U+32B8", "U+32B9", "U+32BA", "U+32BB", "U+32BC", "U+32BD", "U+32BE",
     "U+32BF", "U+3405", "U+3483", "U+382A", "U+3B4D", "U+4E00", "U+4E03",
     "U+4E07", "U+4E09", "U+4E5D", "U+4E8C", "U+4E94", "U+4E96", "U+4EBF",
     "U+4EC0", "U+4EDF", "U+4EE8", "U+4F0D", "U+4F70", "U+5104", "U+5146",
     "U+5169", "U+516B", "U+516D", "U+5341", "U+5343", "U+5344", "U+5345",
     "U+534C", "U+53C1", "U+53C2", "U+53C3", "U+53C4", "U+56DB", "U+58F1",
     "U+58F9", "U+5E7A", "U+5EFE", "U+5EFF", "U+5F0C", "U+5F0D", "U+5F0E",
     "U+5F10", "U+62FE", "U+634C", "U+67D2", "U+6F06", "U+7396", "U+767E",
     "U+8086", "U+842C", "U+8CAE", "U+8CB3", "U+8D30", "U+9621", "U+9646",
     "U+964C", "U+9678", "U+96F6", "U+A620", "U+A621", "U+A622", "U+A623",
     "U+A624", "U+A625", "U+A626", "U+A627", "U+A628", "U+A629", "U+A6E6",
     "U+A6E7", "U+A6E8", "U+A6E9", "U+A6EA", "U+A6EB", "U+A6EC", "U+A6ED",
     "U+A6EE", "U+A6EF", "U+A830", "U+A831", "U+A832", "U+A833", "U+A834",
     "U+A835", "U+A8D0", "U+A8D1", "U+A8D2", "U+A8D3", "U+A8D4", "U+A8D5",
     "U+A8D6", "U+A8D7", "U+A8D8", "U+A8D9", "U+A900", "U+A901", "U+A902",
     "U+A903", "U+A904", "U+A905", "U+A906", "U+A907", "U+A908", "U+A909",
     "U+A9D0", "U+A9D1", "U+A9D2", "U+A9D3", "U+A9D4", "U+A9D5", "U+A9D6",
     "U+A9D7", "U+A9D8", "U+A9D9", "U+A9F0", "U+A9F1", "U+A9F2", "U+A9F3",
     "U+A9F4", "U+A9F5", "U+A9F6", "U+A9F7", "U+A9F8", "U+A9F9", "U+AA50",
     "U+AA51", "U+AA52", "U+AA53", "U+AA54", "U+AA55", "U+AA56", "U+AA57",
     "U+AA58", "U+AA59", "U+ABF0", "U+ABF1", "U+ABF2", "U+ABF3", "U+ABF4",
     "U+ABF5", "U+ABF6", "U+ABF7", "U+ABF8", "U+ABF9", "U+F96B", "U+F973",
     "U+F978", "U+F9B2", "U+F9D1", "U+F9D3", "U+F9FD", "U+FF10", "U+FF11",
     "U+FF12", "U+FF13", "U+FF14", "U+FF15", "U+FF16", "U+FF17", "U+FF18",
     "U+FF19", "U+10107", "U+10108", "U+10109", "U+1010A", "U+1010B",
     "U+1010C", "U+1010D", "U+1010E", "U+1010F", "U+10110", "U+10111",
     "U+10112", "U+10113", "U+10114", "U+10115", "U+10116", "U+10117",
     "U+10118", "U+10119", "U+1011A", "U+1011B", "U+1011C", "U+1011D",
     "U+1011E", "U+1011F", "U+10120", "U+10121", "U+10122", "U+10123",
     "U+10124", "U+10125", "U+10126", "U+10127", "U+10128", "U+10129",
     "U+1012A", "U+1012B", "U+1012C", "U+1012D", "U+1012E", "U+1012F",
     "U+10130", "U+10131", "U+10132", "U+10133", "U+10140", "U+10141",
     "U+10142", "U+10143", "U+10144", "U+10145", "U+10146", "U+10147",
     "U+10148", "U+10149", "U+1014A", "U+1014B", "U+1014C", "U+1014D",
     "U+1014E", "U+1014F", "U+10150", "U+10151", "U+10152", "U+10153",
     "U+10154", "U+10155", "U+10156", "U+10157", "U+10158", "U+10159",
     "U+1015A", "U+1015B", "U+1015C", "U+1015D", "U+1015E", "U+1015F",
     "U+10160", "U+10161", "U+10162", "U+10163", "U+10164", "U+10165",
     "U+10166", "U+10167", "U+10168", "U+10169", "U+1016A", "U+1016B",
     "U+1016C", "U+1016D", "U+1016E", "U+1016F", "U+10170", "U+10171",
     "U+10172", "U+10173", "U+10174", "U+10175", "U+10176", "U+10177",
     "U+10178", "U+1018A", "U+1018B", "U+102E1", "U+102E2", "U+102E3",
     "U+102E4", "U+102E5", "U+102E6", "U+102E7", "U+102E8", "U+102E9",
     "U+102EA", "U+102EB", "U+102EC", "U+102ED", "U+102EE", "U+102EF",
     "U+102F0", "U+102F1", "U+102F2", "U+102F3", "U+102F4", "U+102F5",
     "U+102F6", "U+102F7", "U+102F8", "U+102F9", "U+102FA", "U+102FB",
     "U+10320", "U+10321", "U+10322", "U+10323", "U+10341", "U+1034A",
     "U+103D1", "U+103D2", "U+103D3", "U+103D4", "U+103D5", "U+104A0",
     "U+104A1", "U+104A2", "U+104A3", "U+104A4", "U+104A5", "U+104A6",
     "U+104A7", "U+104A8", "U+104A9", "U+10858", "U+10859", "U+1085A",
     "U+1085B", "U+1085C", "U+1085D", "U+1085E", "U+1085F", "U+10879",
     "U+1087A", "U+1087B", "U+1087C", "U+1087D", "U+1087E", "U+1087F",
     "U+108A7", "U+108A8", "U+108A9", "U+108AA", "U+108AB", "U+108AC",
     "U+108AD", "U+108AE", "U+108AF", "U+108FB", "U+108FC", "U+108FD",
     "U+108FE", "U+108FF", "U+10916", "U+10917", "U+10918", "U+10919",
     "U+1091A", "U+1091B", "U+109BC", "U+109BD", "U+109C0", "U+109C1",
     "U+109C2", "U+109C3", "U+109C4", "U+109C5", "U+109C6", "U+109C7",
     "U+109C8", "U+109C9", "U+109CA", "U+109CB", "U+109CC", "U+109CD",
     "U+109CE", "U+109CF", "U+109D2", "U+109D3", "U+109D4", "U+109D5",
     "U+109D6", "U+109D7", "U+109D8", "U+109D9", "U+109DA", "U+109DB",
     "U+109DC", "U+109DD", "U+109DE", "U+109DF", "U+109E0", "U+109E1",
     "U+109E2", "U+109E3", "U+109E4", "U+109E5", "U+109E6", "U+109E7",
     "U+109E8", "U+109E9", "U+109EA", "U+109EB", "U+109EC", "U+109ED",
     "U+109EE", "U+109EF", "U+109F0", "U+109F1", "U+109F2", "U+109F3",
     "U+109F4", "U+109F5", "U+109F6", "U+109F7", "U+109F8", "U+109F9",
     "U+109FA", "U+109FB", "U+109FC", "U+109FD", "U+109FE", "U+109FF",
     "U+10A40", "U+10A41", "U+10A42", "U+10A43", "U+10A44", "U+10A45",
     "U+10A46", "U+10A47", "U+10A48", "U+10A7D", "U+10A7E", "U+10A9D",
     "U+10A9E", "U+10A9F", "U+10AEB", "U+10AEC", "U+10AED", "U+10AEE",
     "U+10AEF", "U+10B58", "U+10B59", "U+10B5A", "U+10B5B", "U+10B5C",
     "U+10B5D", "U+10B5E", "U+10B5F", "U+10B78", "U+10B79", "U+10B7A",
     "U+10B7B", "U+10B7C", "U+10B7D", "U+10B7E", "U+10B7F", "U+10BA9",
     "U+10BAA", "U+10BAB", "U+10BAC", "U+10BAD", "U+10BAE", "U+10BAF",
     "U+10CFA", "U+10CFB", "U+10CFC", "U+10CFD", "U+10CFE", "U+10CFF",
     "U+10D30", "U+10D31", "U+10D32", "U+10D33", "U+10D34", "U+10D35",
     "U+10D36", "U+10D37", "U+10D38", "U+10D39", "U+10E60", "U+10E61",
     "U+10E62", "U+10E63", "U+10E64", "U+10E65", "U+10E66", "U+10E67",
     "U+10E68", "U+10E69", "U+10E6A", "U+10E6B", "U+10E6C", "U+10E6D",
     "U+10E6E", "U+10E6F", "U+10E70", "U+10E71", "U+10E72", "U+10E73",
     "U+10E74", "U+10E75", "U+10E76", "U+10E77", "U+10E78", "U+10E79",
     "U+10E7A", "U+10E7B", "U+10E7C", "U+10E7D", "U+10E7E", "U+10F1D",
     "U+10F1E", "U+10F1F", "U+10F20", "U+10F21", "U+10F22", "U+10F23",
     "U+10F24", "U+10F25", "U+10F26", "U+10F51", "U+10F52", "U+10F53",
     "U+10F54", "U+10FC5", "U+10FC6", "U+10FC7", "U+10FC8", "U+10FC9",
     "U+10FCA", "U+10FCB", "U+11052", "U+11053", "U+11054", "U+11055",
     "U+11056", "U+11057", "U+11058", "U+11059", "U+1105A", "U+1105B",
     "U+1105C", "U+1105D", "U+1105E", "U+1105F", "U+11060", "U+11061",
     "U+11062", "U+11063", "U+11064", "U+11065", "U+11066", "U+11067",
     "U+11068", "U+11069", "U+1106A", "U+1106B", "U+1106C", "U+1106D",
     "U+1106E", "U+1106F", "U+110F0", "U+110F1", "U+110F2", "U+110F3",
     "U+110F4", "U+110F5", "U+110F6", "U+110F7", "U+110F8", "U+110F9",
     "U+11136", "U+11137", "U+11138", "U+11139", "U+1113A", "U+1113B",
     "U+1113C", "U+1113D", "U+1113E", "U+1113F", "U+111D0", "U+111D1",
     "U+111D2", "U+111D3", "U+111D4", "U+111D5", "U+111D6", "U+111D7",
     "U+111D8", "U+111D9", "U+111E1", "U+111E2", "U+111E3", "U+111E4",
     "U+111E5", "U+111E6", "U+111E7", "U+111E8", "U+111E9", "U+111EA",
     "U+111EB", "U+111EC", "U+111ED", "U+111EE", "U+111EF", "U+111F0",
     "U+111F1", "U+111F2", "U+111F3", "U+111F4", "U+112F0", "U+112F1",
     "U+112F2", "U+112F3", "U+112F4", "U+112F5", "U+112F6", "U+112F7",
     "U+112F8", "U+112F9", "U+11450", "U+11451", "U+11452", "U+11453",
     "U+11454", "U+11455", "U+11456", "U+11457", "U+11458", "U+11459",
     "U+114D0", "U+114D1", "U+114D2", "U+114D3", "U+114D4", "U+114D5",
     "U+114D6", "U+114D7", "U+114D8", "U+114D9", "U+11650", "U+11651",
     "U+11652", "U+11653", "U+11654", "U+11655", "U+11656", "U+11657",
     "U+11658", "U+11659", "U+116C0", "U+116C1", "U+116C2", "U+116C3",
     "U+116C4", "U+116C5", "U+116C6", "U+116C7", "U+116C8", "U+116C9",
     "U+11730", "U+11731", "U+11732", "U+11733", "U+11734", "U+11735",
     "U+11736", "U+11737", "U+11738", "U+11739", "U+1173A", "U+1173B",
     "U+118E0", "U+118E1", "U+118E2", "U+118E3", "U+118E4", "U+118E5",
     "U+118E6", "U+118E7", "U+118E8", "U+118E9", "U+118EA", "U+118EB",
     "U+118EC", "U+118ED", "U+118EE", "U+118EF", "U+118F0", "U+118F1",
     "U+118F2", "U+11950", "U+11951", "U+11952", "U+11953", "U+11954",
     "U+11955", "U+11956", "U+11957", "U+11958", "U+11959", "U+11C50",
     "U+11C51", "U+11C52", "U+11C53", "U+11C54", "U+11C55", "U+11C56",
     "U+11C57", "U+11C58", "U+11C59", "U+11C5A", "U+11C5B", "U+11C5C",
     "U+11C5D", "U+11C5E", "U+11C5F", "U+11C60", "U+11C61", "U+11C62",
     "U+11C63", "U+11C64", "U+11C65", "U+11C66", "U+11C67", "U+11C68",
     "U+11C69", "U+11C6A", "U+11C6B", "U+11C6C", "U+11D50", "U+11D51",
     "U+11D52", "U+11D53", "U+11D54", "U+11D55", "U+11D56", "U+11D57",
     "U+11D58", "U+11D59", "U+11DA0", "U+11DA1", "U+11DA2", "U+11DA3",
     "U+11DA4", "U+11DA5", "U+11DA6", "U+11DA7", "U+11DA8", "U+11DA9",
     "U+11FC0", "U+11FC1", "U+11FC2", "U+11FC3", "U+11FC4", "U+11FC5",
     "U+11FC6", "U+11FC7", "U+11FC8", "U+11FC9", "U+11FCA", "U+11FCB",
     "U+11FCC", "U+11FCD", "U+11FCE", "U+11FCF", "U+11FD0", "U+11FD1",
     "U+11FD2", "U+11FD3", "U+11FD4", "U+12400", "U+12401", "U+12402",
     "U+12403", "U+12404", "U+12405", "U+12406", "U+12407", "U+12408",
     "U+12409", "U+1240A", "U+1240B", "U+1240C", "U+1240D", "U+1240E",
     "U+1240F", "U+12410", "U+12411", "U+12412", "U+12413", "U+12414",
     "U+12415", "U+12416", "U+12417", "U+12418", "U+12419", "U+1241A",
     "U+1241B", "U+1241C", "U+1241D", "U+1241E", "U+1241F", "U+12420",
     "U+12421", "U+12422", "U+12423", "U+12424", "U+12425", "U+12426",
     "U+12427", "U+12428", "U+12429", "U+1242A", "U+1242B", "U+1242C",
     "U+1242D", "U+1242E", "U+1242F", "U+12430", "U+12431", "U+12432",
     "U+12433", "U+12434", "U+12435", "U+12436", "U+12437", "U+12438",
     "U+12439", "U+1243A", "U+1243B", "U+1243C", "U+1243D", "U+1243E",
     "U+1243F", "U+12440", "U+12441", "U+12442", "U+12443", "U+12444",
     "U+12445", "U+12446", "U+12447", "U+12448", "U+12449", "U+1244A",
     "U+1244B", "U+1244C", "U+1244D", "U+1244E", "U+1244F", "U+12450",
     "U+12451", "U+12452", "U+12453", "U+12454", "U+12455", "U+12456",
     "U+12457", "U+12458", "U+12459", "U+1245A", "U+1245B", "U+1245C",
     "U+1245D", "U+1245E", "U+1245F", "U+12460", "U+12461", "U+12462",
     "U+12463", "U+12464", "U+12465", "U+12466", "U+12467", "U+12468",
     "U+12469", "U+1246A", "U+1246B", "U+1246C", "U+1246D", "U+1246E",
     "U+16A60", "U+16A61", "U+16A62", "U+16A63", "U+16A64", "U+16A65",
     "U+16A66", "U+16A67", "U+16A68", "U+16A69", "U+16AC0", "U+16AC1",
     "U+16AC2", "U+16AC3", "U+16AC4", "U+16AC5", "U+16AC6", "U+16AC7",
     "U+16AC8", "U+16AC9", "U+16B50", "U+16B51", "U+16B52", "U+16B53",
     "U+16B54", "U+16B55", "U+16B56", "U+16B57", "U+16B58", "U+16B59",
     "U+16B5B", "U+16B5C", "U+16B5D", "U+16B5E", "U+16B5F", "U+16B60",
     "U+16B61", "U+16E80", "U+16E81", "U+16E82", "U+16E83", "U+16E84",
     "U+16E85", "U+16E86", "U+16E87", "U+16E88", "U+16E89", "U+16E8A",
     "U+16E8B", "U+16E8C", "U+16E8D", "U+16E8E", "U+16E8F", "U+16E90",
     "U+16E91", "U+16E92", "U+16E93", "U+16E94", "U+16E95", "U+16E96",
     "U+1D2E0", "U+1D2E1", "U+1D2E2", "U+1D2E3", "U+1D2E4", "U+1D2E5",
     "U+1D2E6", "U+1D2E7", "U+1D2E8", "U+1D2E9", "U+1D2EA", "U+1D2EB",
     "U+1D2EC", "U+1D2ED", "U+1D2EE", "U+1D2EF", "U+1D2F0", "U+1D2F1",
     "U+1D2F2", "U+1D2F3", "U+1D360", "U+1D361", "U+1D362", "U+1D363",
     "U+1D364", "U+1D365", "U+1D366", "U+1D367", "U+1D368", "U+1D369",
     "U+1D36A", "U+1D36B", "U+1D36C", "U+1D36D", "U+1D36E", "U+1D36F",
     "U+1D370", "U+1D371", "U+1D372", "U+1D373", "U+1D374", "U+1D375",
     "U+1D376", "U+1D377", "U+1D378", "U+1D7CE", "U+1D7CF", "U+1D7D0",
     "U+1D7D1", "U+1D7D2", "U+1D7D3", "U+1D7D4", "U+1D7D5", "U+1D7D6",
     "U+1D7D7", "U+1D7D8", "U+1D7D9", "U+1D7DA", "U+1D7DB", "U+1D7DC",
     "U+1D7DD", "U+1D7DE", "U+1D7DF", "U+1D7E0", "U+1D7E1", "U+1D7E2",
     "U+1D7E3", "U+1D7E4", "U+1D7E5", "U+1D7E6", "U+1D7E7", "U+1D7E8",
     "U+1D7E9", "U+1D7EA", "U+1D7EB", "U+1D7EC", "U+1D7ED", "U+1D7EE",
     "U+1D7EF", "U+1D7F0", "U+1D7F1", "U+1D7F2", "U+1D7F3", "U+1D7F4",
     "U+1D7F5", "U+1D7F6", "U+1D7F7", "U+1D7F8", "U+1D7F9", "U+1D7FA",
     "U+1D7FB", "U+1D7FC", "U+1D7FD", "U+1D7FE", "U+1D7FF", "U+1E140",
     "U+1E141", "U+1E142", "U+1E143", "U+1E144", "U+1E145", "U+1E146",
     "U+1E147", "U+1E148", "U+1E149", "U+1E2F0", "U+1E2F1", "U+1E2F2",
     "U+1E2F3", "U+1E2F4", "U+1E2F5", "U+1E2F6", "U+1E2F7", "U+1E2F8",
     "U+1E2F9", "U+1E8C7", "U+1E8C8", "U+1E8C9", "U+1E8CA", "U+1E8CB",
     "U+1E8CC", "U+1E8CD", "U+1E8CE", "U+1E8CF", "U+1E950", "U+1E951",
     "U+1E952", "U+1E953", "U+1E954", "U+1E955", "U+1E956", "U+1E957",
     "U+1E958", "U+1E959", "U+1EC71", "U+1EC72", "U+1EC73", "U+1EC74",
     "U+1EC75", "U+1EC76", "U+1EC77", "U+1EC78", "U+1EC79", "U+1EC7A",
     "U+1EC7B", "U+1EC7C", "U+1EC7D", "U+1EC7E", "U+1EC7F", "U+1EC80",
     "U+1EC81", "U+1EC82", "U+1EC83", "U+1EC84", "U+1EC85", "U+1EC86",
     "U+1EC87", "U+1EC88", "U+1EC89", "U+1EC8A", "U+1EC8B", "U+1EC8C",
     "U+1EC8D", "U+1EC8E", "U+1EC8F", "U+1EC90", "U+1EC91", "U+1EC92",
     "U+1EC93", "U+1EC94", "U+1EC95", "U+1EC96", "U+1EC97", "U+1EC98",
     "U+1EC99", "U+1EC9A", "U+1EC9B", "U+1EC9C", "U+1EC9D", "U+1EC9E",
     "U+1EC9F", "U+1ECA0", "U+1ECA1", "U+1ECA2", "U+1ECA3", "U+1ECA4",
     "U+1ECA5", "U+1ECA6", "U+1ECA7", "U+1ECA8", "U+1ECA9", "U+1ECAA",
     "U+1ECAB", "U+1ECAD", "U+1ECAE", "U+1ECAF", "U+1ECB1", "U+1ECB2",
     "U+1ECB3", "U+1ECB4", "U+1ED01", "U+1ED02", "U+1ED03", "U+1ED04",
     "U+1ED05", "U+1ED06", "U+1ED07", "U+1ED08", "U+1ED09", "U+1ED0A",
     "U+1ED0B", "U+1ED0C", "U+1ED0D", "U+1ED0E", "U+1ED0F", "U+1ED10",
     "U+1ED11", "U+1ED12", "U+1ED13", "U+1ED14", "U+1ED15", "U+1ED16",
     "U+1ED17", "U+1ED18", "U+1ED19", "U+1ED1A", "U+1ED1B", "U+1ED1C",
     "U+1ED1D", "U+1ED1E", "U+1ED1F", "U+1ED20", "U+1ED21", "U+1ED22",
     "U+1ED23", "U+1ED24", "U+1ED25", "U+1ED26", "U+1ED27", "U+1ED28",
     "U+1ED29", "U+1ED2A", "U+1ED2B", "U+1ED2C", "U+1ED2D", "U+1ED2F",
     "U+1ED30", "U+1ED31", "U+1ED32", "U+1ED33", "U+1ED34", "U+1ED35",
     "U+1ED36", "U+1ED37", "U+1ED38", "U+1ED39", "U+1ED3A", "U+1ED3B",
     "U+1ED3C", "U+1ED3D", "U+1F100", "U+1F101", "U+1F102", "U+1F103",
     "U+1F104", "U+1F105", "U+1F106", "U+1F107", "U+1F108", "U+1F109",
     "U+1F10A", "U+1F10B", "U+1F10C", "U+1FBF0", "U+1FBF1", "U+1FBF2",
     "U+1FBF3", "U+1FBF4", "U+1FBF5", "U+1FBF6", "U+1FBF7", "U+1FBF8",
     "U+1FBF9", "U+20001", "U+20064", "U+200E2", "U+20121", "U+2092A",
     "U+20983", "U+2098C", "U+2099C", "U+20AEA", "U+20AFD", "U+20B19",
     "U+22390", "U+22998", "U+23B1B", "U+2626D", "U+2F890"}

Repeat(c, n) == [i \in 1..n |-> c]

SeqsUpTo(S, n) == UNION {[1..k -> S] : k \in 0..n}

\* Index of the first occurrence of sep in s, 0 when there is none.
RECURSIVE FindFrom(_, _, _)
FindFrom(s, sep, i) ==
    IF i > Len(s) THEN 0
    ELSE IF s[i] = sep THEN i
    ELSE FindFrom(s, sep, i + 1)

\* str.split(sep): always at least one part, empty parts are kept.
RECURSIVE Split(_, _)
Split(s, sep) ==
    LET i == FindFrom(s, sep, 1) IN
    IF i = 0 THEN <<s>>
    ELSE <<SubSeq(s, 1, i - 1)>> \o Split(SubSeq(s, i + 1, Len(s)), sep)

\* str.isnumeric(): a non-empty string of numeric characters only.
IsNumeric(s) == Len(s) > 0 /\ \A i \in 1..Len(s) : s[i] \in NumericChars

(***************************************************************************)
(* JSON values and the two Python subscript operations on them.            *)
(***************************************************************************)
EmptyDict == <<>>

JStr(s) == [type |-> "string", s |-> s, o |-> EmptyDict]
JNum(s) == [type |-> "number", s |-> s, o |-> EmptyDict]
JArr == [type |-> "array", s |-> <<>>, o |-> EmptyDict]
JObj(d) == [type |-> "object", s |-> <<>>, o |-> d]

HasKey(d, k) == k \in DOMAIN d

DictSet(d, k, v) == [x \in (DOMAIN d) \cup {k} |-> IF x = k THEN v ELSE d[x]]

Ok(j) == [err |-> "", val |-> j]
Raise(e, j) == [err |-> e, val |-> j]

\* container[k], k a str: only a dict holding k has it.
GetItem(container, k) ==
    IF container.type # "object" THEN Raise("TypeError", container)
    ELSE IF ~HasKey(container.o, k) THEN Raise("KeyError", container)
    ELSE Ok(container.o[k])

\* container[k] = v, k a str: only a dict supports it.
SetItem(container, k, v) ==
    IF container.type # "object" THEN Raise("TypeError", container)
    ELSE Ok(JObj(DictSet(container.o, k, v)))

(***************************************************************************)
(* Template/CSV merger: __customiseJsonFromCsvRow.                         *)
(***************************************************************************)
\* An override that treats every key of two or more segments as nested.
ApplyOverride_deepAsNested(templateJson, key, value) ==
    LET parts == Split(key, ".") IN
    IF Len(parts) >= 2 THEN
        LET parent == GetItem(templateJson, parts[1]) IN
        IF parent.err # "" THEN Raise(parent.err, templateJson)
        ELSE LET child == SetItem(parent.val, parts[2], JStr(value)) IN
             IF child.err # "" THEN Raise(child.err, templateJson)
             ELSE Ok(JObj(DictSet(templateJson.o, parts[1], child.val)))
    ELSE SetItem(templateJson, key, JStr(value))

\* A nested override that rebuilds the parent with the one field only.
ApplyOverride_dropsSiblings(templateJson, key, value) ==
    LET parts == Split(key, ".") IN
    IF Len(parts) = 2 THEN
        LET parent == GetItem(templateJson, parts[1]) IN
        IF parent.err # "" THEN Raise(parent.err, templateJson)
        ELSE LET child == SetItem(parent.val, parts[2], JStr(value)) IN
             IF child.err # "" THEN Raise(child.err, templateJson)
             ELSE Ok(JObj(DictSet(templateJson.o, parts[1],
                                  JObj(parts[2] :> JStr(value)))))
    ELSE IF Len(parts) = 1 THEN
        SetItem(templateJson, key, JStr(value))
    ELSE Raise("SystemExit", templateJson)

\* One (key, value) item of the row applied to templateJson.  The result is
\* the template as the assignment leaves it and the exception, if any, that
\* ends the loop ("SystemExit" for the sys.exit of the else branch).
ApplyOverride(templateJson, key, value) ==
    LET parts == Split(key, ".") IN
    IF Len(parts) = 2 THEN
        LET parent == GetItem(templateJson, parts[1]) IN
        IF parent.err # "" THEN Raise(parent.err, templateJson)
        ELSE LET child == SetItem(parent.val, parts[2], JStr(value)) IN
             IF child.err # "" THEN Raise(child.err, templateJson)
             ELSE Ok(JObj(DictSet(templateJson.o, parts[1], child.val)))
    ELSE IF Len(parts) = 1 THEN
        SetItem(templateJson, key, JStr(value))
    ELSE Raise("SystemExit", templateJson)

\* The for loop over csvRowDictionary.items(), from item i on.  A row is the
\* sequence of its <<key, value>> items in dict order.
RECURSIVE CustomiseFrom(_, _, _)
CustomiseFrom(templateJson, csvRowDictionary, i) ==
    IF i > Len(csvRowDictionary) THEN Ok(templateJson)
    ELSE LET r == ApplyOverride(templateJson, csvRowDictionary[i][1],
                                csvRowDictionary[i][2]) IN
         IF r.err # "" THEN r
         ELSE CustomiseFrom(r.val, csvRowDictionary, i + 1)

customiseJsonFromCsvRow(templateJson, csvRowDictionary) ==
    CustomiseFrom(templateJson, csvRowDictionary, 1)

\* Category of the way an exception out of __customiseJsonFromCsvRow ends
\* the process: the else branch exits with a message, anything else is an
\* uncaught exception.
CustomiseExitKind(err) == IF err = "SystemExit" THEN "sys.exit" ELSE "traceback"

CustomiseExitMsg(err) == IF err = "SystemExit" THEN "ExcessiveNestingDepth" ELSE err

(***************************************************************************)
(* Input validators.                                                       *)
(***************************************************************************)
AllowedRequestTypes == {"area"}

\* __validateRequestType: "" when the type passes, else the exit category.
validateRequestType(rt) ==
    IF rt # "" /\ rt \in AllowedRequestTypes THEN "" ELSE "UnsupportedRequestType"

TokenLen == 40

\* A validator that forgets the isnumeric test of the UID.
validateApiKey_anyUid(key) ==
    LET parts == Split(key, "-") IN
    IF Len(parts) # 2 THEN "InvalidApiKeyFormat"
    ELSE IF Len(parts[2]) # TokenLen THEN "InvalidApiKeyFormat"
    ELSE ""

\* __validateApiKey: "" when the key passes, else the exit category.
validateApiKey(key) ==
    LET parts == Split(key, "-") IN
    IF Len(parts) # 2 THEN "InvalidApiKeyFormat"
    ELSE IF ~IsNumeric(parts[1]) THEN "InvalidApiKeyFormat"
    ELSE IF Len(parts[2]) # TokenLen THEN "InvalidApiKeyFormat"
    ELSE ""

\* None as a dict key or value, and the list csv.DictReader stores under the
\* None key for surplus fields; neither is a string of characters.
PyNone == <<"<None>">>
PyList == <<"<list>">>

Falsy(x) == x = PyNone \/ x = <<>>

\* d[k] = v on a dict kept as its items in insertion order.
RECURSIVE ItemsSet(_, _, _)
ItemsSet(items, k, v) ==
    IF items = <<>> THEN <<<<k, v>>>>
    ELSE IF Head(items)[1] = k THEN <<<<k, v>>>> \o Tail(items)
    ELSE <<Head(items)>> \o ItemsSet(Tail(items), k, v)

\* dict(zip(fieldnames, record)) from position i on.
RECURSIVE ZipFrom(_, _, _, _)
ZipFrom(items, names, record, i) ==
    IF i > Len(names) \/ i > Len(record) THEN items
    ELSE ZipFrom(ItemsSet(items, names[i], record[i]), names, record, i + 1)

\* d[key] = None for the field names a short record leaves without a value.
RECURSIVE RestvalFrom(_, _, _)
RestvalFrom(items, names, i) ==
    IF i > Len(names) THEN items
    ELSE RestvalFrom(ItemsSet(items, names[i], PyNone), names, i + 1)

\* The dict csv.DictReader yields for one non-blank record.
DictReaderRow(names, record) ==
    LET d == ZipFrom(<<>>, names, record, 1) IN
    IF Len(names) < Len(record) THEN ItemsSet(d, PyNone, PyList)
    ELSE IF Len(names) > Len(record) THEN RestvalFrom(d, names, Len(record) + 1)
    ELSE d

\* The checks __validateCsv makes on one row, item by item: "" when the row
\* passes, else the category of the AttributeError it raises.
RECURSIVE ValidateRowFrom(_, _)
ValidateRowFrom(row, i) ==
    IF i > Len(row) THEN ""
    ELSE IF Falsy(row[i][1]) \/ Falsy(row[i][2]) THEN "MalformedCsvRow"
    ELSE IF Len(Split(row[i][1], ".")) > 2 THEN "ExcessiveNestingDepth"
    ELSE ValidateRowFrom(row, i + 1)

\* A check that looks at the first column only.
validateCsvRow_firstItemOnly(row) == ValidateRowFrom(SubSeq(row, 1, 1), 1)

validateCsvRow(row) == ValidateRowFrom(row, 1)

(***************************************************************************)
(* Error classifier: __checkHttpResponse.                                  *)
(***************************************************************************)
\* A classifier that lets a 401 through.
checkHttpResponse_ignores401(httpStatusCode) ==
    IF httpStatusCode # 200 /\ httpStatusCode # 401 THEN
        IF httpStatusCode = 400 THEN "BadRequest"
        ELSE IF httpStatusCode = 403 THEN "Forbidden"
        ELSE IF httpStatusCode = 500 THEN "ServerError"
        ELSE "UnknownHttpError"
    ELSE ""

\* "" when the response lets the run continue, else the exit category.
checkHttpResponse(httpStatusCode) ==
    IF httpStatusCode # 200 THEN
        IF httpStatusCode = 400 THEN "BadRequest"
        ELSE IF httpStatusCode = 401 THEN "Unauthorized"
        ELSE IF httpStatusCode = 403 THEN "Forbidden"
        ELSE IF httpStatusCode = 500 THEN "ServerError"
        ELSE "UnknownHttpError"
    ELSE ""

\* A classifier that forgets print(httpRawResponse).
checkHttpResponsePrints_noRaw(httpStatusCode, httpRawResponse) ==
    IF httpStatusCode # 200
    THEN <<[kind |-> "http_error", status |-> httpStatusCode, text |-> ""]>>
    ELSE <<>>

\* What __checkHttpResponse prints before it exits.
checkHttpResponsePrints(httpStatusCode, httpRawResponse) ==
    IF httpStatusCode # 200
    THEN <<[kind |-> "http_error", status |-> httpStatusCode, text |-> ""],
           [kind |-> "raw", status |-> httpStatusCode, text |-> httpRawResponse]>>
    ELSE <<>>
(***************************************************************************)
(* Inputs of a run: command-line arguments, files as they are when the     *)
(* program reads them, and what the server answers.                        *)
(***************************************************************************)
RequestTypes == {"area", "elevation", ""}

ValidKey == <<"1", "1">> \o <<"-">> \o Repeat("a", TokenLen)
ShortTokenKey == <<"1", "2">> \o <<"-">> \o <<"s", "h", "o", "r", "t">>

MainApiKeys == {ValidKey, ShortTokenKey}

K_a == <<"a">>
K_b == <<"b">>
K_c == <<"c">>
K_ab == <<"a", ".", "b">>
K_ac == <<"a", ".", "c">>
K_abc == <<"a", ".", "b", ".", "c">>

JNull == [type |-> "null", s |-> <<>>, o |-> EmptyDict]

TplArray == JArr
TplNoA == JObj(K_b :> JNum(<<"2">>))
TplStrA == JObj((K_a :> JStr(<<"s">>)) @@ (K_b :> JNum(<<"2">>)))
TplObjA ==
    JObj((K_a :> JObj((K_b :> JNum(<<"1">>)) @@ (K_c :> JNum(<<"2">>))))
         @@ (K_b :> JNum(<<"2">>)))

Templates == {TplArray, TplNoA, TplStrA, TplObjA}

\* What open + json.load of the template file can produce.
TemplateReads ==
    {[err |-> e, val |-> JNull] : e \in {"PermissionError", "JSONDecodeError", "OSError"}}
    \cup {Ok(t) : t \in Templates}

\* What the file system can answer to __validateFileAndDirectoryPermissions.
FsStates ==
    [templateExists : BOOLEAN, csvExists : BOOLEAN,
     outputDir : {"writable", "created", "makedirs fails", "PermissionError"}]

Headers == {<<>>, K_a, K_b, K_ab, K_ac, K_abc}
Values == {<<>>, <<"x">>, <<"y">>}

\* The first record of the CSV file: up to MaxCols column names.
HeaderRows == SeqsUpTo(Headers, MaxCols)

\* A later record of the CSV file; <<>> is a blank line.
Records == SeqsUpTo(Values, MaxCols)

Statuses == {200, 201, 400, 401, 403, 404, 500}
RawBodies == {<<"o", "k">>, <<"n", "o">>}

\* What requests.post can produce.
PostOutcomes ==
    {[kind |-> "response", status |-> st, text |-> tx] : st \in Statuses, tx \in RawBodies}
    \cup {[kind |-> k, status |-> 0, text |-> <<>>] : k \in {"SSLError", "ConnectionError"}}

(***************************************************************************)
(* The run of CloudRF.__init__.                                            *)
(***************************************************************************)
Init ==
    /\ requestType \in RequestTypes
    /\ api_key \in MainApiKeys
    /\ input_csv \in BOOLEAN
    /\ verbose \in BOOLEAN
    /\ pc = "validateRequestType"
    /\ jsonTemplate = JNull
    /\ fieldnames = <<>>
    /\ recordsRead = 0
    /\ csvInputList = <<>>
    /\ rowIdx = 0
    /\ loadedTemplate = JNull
    /\ sent = <<>>
    /\ outcomes = <<>>
    /\ stdout = <<>>
    /\ exitKind = "running"
    /\ exitMsg = ""

\* sys.exit(message), or an exception nothing catches.
Exit(kind, msg) ==
    /\ pc' = "exited"
    /\ exitKind' = kind
    /\ exitMsg' = msg

Goto(label) ==
    /\ pc' = label
    /\ UNCHANGED <<exitKind, exitMsg>>

ValidateRequestType ==
    /\ pc = "validateRequestType"
    /\ LET e == validateRequestType(requestType) IN
       IF e = "" THEN Goto("validateApiKey") ELSE Exit("sys.exit", e)
    /\ UNCHANGED <<requestType, api_key, input_csv, verbose, jsonTemplate, fieldnames,
                   recordsRead, csvInputList, rowIdx, loadedTemplate, sent,
                   outcomes, stdout>>

ValidateApiKey ==
    /\ pc = "validateApiKey"
    /\ LET e == validateApiKey(api_key) IN
       IF e = "" THEN Goto("validateFiles") ELSE Exit("sys.exit", e)
    /\ UNCHANGED <<requestType, api_key, input_csv, verbose, jsonTemplate, fieldnames,
                   recordsRead, csvInputList, rowIdx, loadedTemplate, sent,
                   outcomes, stdout>>

\* __validateFileAndDirectoryPermissions on file system fs: <<kind, message>>
\* of the way it ends the process, or <<"", "">> when it returns.
validateFileAndDirectoryPermissions(fs, csvGiven) ==
    IF ~fs.templateExists THEN <<"sys.exit", "FileNotFound">>
    ELSE IF csvGiven /\ ~fs.csvExists THEN <<"sys.exit", "FileNotFound">>
    ELSE IF fs.outputDir = "makedirs fails" THEN <<"traceback", "OSError">>
    ELSE IF fs.outputDir = "PermissionError" THEN <<"sys.exit", "PermissionDenied">>
    ELSE <<"", "">>

ValidateFileAndDirectoryPermissions ==
    /\ pc = "validateFiles"
    /\ \E fs \in FsStates :
         LET e == validateFileAndDirectoryPermissions(fs, input_csv) IN
         IF e[1] = "" THEN Goto("validateJsonTemplate") ELSE Exit(e[1], e[2])
    /\ UNCHANGED <<requestType, api_key, input_csv, verbose, jsonTemplate, fieldnames,
                   recordsRead, csvInputList, rowIdx, loadedTemplate, sent,
                   outcomes, stdout>>

\* The exit category of each exception __validateJsonTemplate catches.
validateJsonTemplateError(err) ==
    IF err = "PermissionError" THEN "PermissionDenied"
    ELSE IF err = "JSONDecodeError" THEN "InvalidJson"
    ELSE "UnknownError"

ValidateJsonTemplate ==
    /\ pc = "validateJsonTemplate"
    /\ \E r \in TemplateReads :
         IF r.err = ""
         THEN /\ jsonTemplate' = r.val
              /\ loadedTemplate' = r.val
              /\ Goto("validateCsv")
         ELSE /\ Exit("sys.exit", validateJsonTemplateError(r.err))
              /\ UNCHANGED <<jsonTemplate, loadedTemplate>>
    /\ UNCHANGED <<requestType, api_key, input_csv, verbose, fieldnames, recordsRead,
                   csvInputList, rowIdx, sent, outcomes, stdout>>
\* The condition of line 53: the CSV rows drive the run only when a CSV was
\* given and __validateCsv returned a non-empty list.
UseCsvRows(csvGiven, rows) == csvGiven /\ rows # <<>>

\* A run that loops over the rows and has no else branch.
AfterValidateCsv_noTemplateRun(rows) ==
    /\ csvInputList' = rows
    /\ IF UseCsvRows(input_csv, rows)
       THEN rowIdx' = 1 /\ Goto("customise")
       ELSE rowIdx' = 0 /\ Goto("completed")

\* Where __init__ goes once __validateCsv has returned rows.
AfterValidateCsv(rows) ==
    /\ csvInputList' = rows
    /\ IF UseCsvRows(input_csv, rows)
       THEN rowIdx' = 1 /\ Goto("customise")
       ELSE rowIdx' = 0 /\ Goto("calculate")

\* The exit category of each exception __validateCsv catches while reading.
validateCsvError(err) ==
    IF err = "PermissionError" THEN "PermissionDenied" ELSE "UnknownError"

\* __validateCsv up to the first record: no CSV given (returns None), open
\* fails, the file is empty, or csv.DictReader takes the first record as
\* its field names.
ValidateCsvOpen ==
    /\ pc = "validateCsv"
    /\ IF ~input_csv
       THEN /\ AfterValidateCsv(<<>>)
            /\ UNCHANGED fieldnames
       ELSE \/ \E err \in {"PermissionError", "OSError"} :
                 /\ Exit("sys.exit", validateCsvError(err))
                 /\ UNCHANGED <<fieldnames, csvInputList, rowIdx>>
            \/ /\ AfterValidateCsv(<<>>)
               /\ UNCHANGED fieldnames
            \/ \E h \in HeaderRows :
                 /\ fieldnames' = h
                 /\ Goto("validateCsvRows")
                 /\ UNCHANGED <<csvInputList, rowIdx>>
    /\ UNCHANGED <<requestType, api_key, input_csv, verbose, jsonTemplate, recordsRead,
                   loadedTemplate, sent, outcomes, stdout>>

\* One iteration of "for row in reader": the file ends (the list is
\* returned), a blank line is skipped, or the row is checked and appended.
ValidateCsvRow ==
    /\ pc = "validateCsvRows"
    /\ \/ /\ AfterValidateCsv(csvInputList)
          /\ UNCHANGED recordsRead
       \/ /\ recordsRead < MaxRows
          /\ Exit("sys.exit", validateCsvError("OSError"))
          /\ UNCHANGED <<recordsRead, csvInputList, rowIdx>>
       \/ /\ recordsRead < MaxRows
          /\ recordsRead' = recordsRead + 1
          /\ \E record \in Records :
               IF record = <<>>
               THEN /\ Goto("validateCsvRows")
                    /\ UNCHANGED <<csvInputList, rowIdx>>
               ELSE LET row == DictReaderRow(fieldnames, record)
                        e == validateCsvRow(row) IN
                    IF e = ""
                    THEN /\ csvInputList' = Append(csvInputList, row)
                         /\ Goto("validateCsvRows")
                         /\ UNCHANGED rowIdx
                    ELSE /\ Exit("sys.exit", e)
                         /\ UNCHANGED <<csvInputList, rowIdx>>
    /\ UNCHANGED <<requestType, api_key, input_csv, verbose, jsonTemplate, fieldnames,
                   loadedTemplate, sent, outcomes, stdout>>

\* Line 57: the template handed to __customiseJsonFromCsvRow is
\* self.__jsonTemplate itself, so the row's assignments change it in place
\* (also the ones made before an exception) and newJsonData is that object.
Customise ==
    /\ pc = "customise"
    /\ LET r == customiseJsonFromCsvRow(jsonTemplate, csvInputList[rowIdx]) IN
       /\ jsonTemplate' = r.val
       /\ IF r.err = ""
          THEN Goto("calculate")
          ELSE Exit(CustomiseExitKind(r.err), CustomiseExitMsg(r.err))
    /\ UNCHANGED <<requestType, api_key, input_csv, verbose, fieldnames, recordsRead,
                   csvInputList, rowIdx, loadedTemplate, sent, outcomes, stdout>>

\* What line 106-107 prints once __checkHttpResponse has returned.
verbosePrints(isVerbose, httpStatusCode, text) ==
    IF isVerbose
    THEN <<[kind |-> "verbose", status |-> httpStatusCode, text |-> text]>>
    ELSE <<>>

\* Where __init__ goes when __calculate returns: the next row of the loop,
\* or the final sys.exit of line 64.
AfterCalculate ==
    IF rowIdx # 0 /\ rowIdx < Len(csvInputList)
    THEN rowIdx' = rowIdx + 1 /\ Goto("customise")
    ELSE rowIdx' = rowIdx /\ Goto("completed")

\* __calculate(jsonData): one requests.post of the body, then the response
\* goes through __checkHttpResponse.
Calculate ==
    /\ pc = "calculate"
    /\ sent' = Append(sent, [row |-> rowIdx, body |-> jsonTemplate])
    /\ \E out \in PostOutcomes :
         /\ outcomes' = Append(outcomes, out)
         /\ IF out.kind = "SSLError"
            THEN /\ Exit("sys.exit", "TlsError")
                 /\ UNCHANGED <<rowIdx, stdout>>
            ELSE IF out.kind = "ConnectionError"
            THEN /\ Exit("traceback", "ConnectionError")
                 /\ UNCHANGED <<rowIdx, stdout>>
            ELSE LET e == checkHttpResponse(out.status) IN
                 IF e # ""
                 THEN /\ stdout' = stdout \o checkHttpResponsePrints(out.status, out.text)
                      /\ Exit("sys.exit", e)
                      /\ UNCHANGED rowIdx
                 ELSE /\ stdout' = stdout \o verbosePrints(verbose, out.status, out.text)
                      /\ AfterCalculate
    /\ UNCHANGED <<requestType, api_key, input_csv, verbose, jsonTemplate, fieldnames,
                   recordsRead, csvInputList, loadedTemplate>>

\* Line 64: sys.exit('Process completed. ...').
ProcessCompleted ==
    /\ pc = "completed"
    /\ Exit("sys.exit", "ProcessCompleted")
    /\ UNCHANGED <<requestType, api_key, input_csv, verbose, jsonTemplate, fieldnames,
                   recordsRead, csvInputList, rowIdx, loadedTemplate, sent,
                   outcomes, stdout>>

Next ==
    \/ ValidateRequestType
    \/ ValidateApiKey
    \/ ValidateFileAndDirectoryPermissions
    \/ ValidateJsonTemplate
    \/ ValidateCsvOpen
    \/ ValidateCsvRow
    \/ Customise
    \/ Calculate
    \/ ProcessCompleted

Spec == Init /\ [][Next]_vars
(***************************************************************************)
(* __validateApiKey alone, over a wide set of keys.                        *)
(***************************************************************************)
KeyChars == {"1", "a"}

\* UIDs with numeric characters that are no ASCII digits.
NonAsciiUids == {<<"²">>, <<"1", "½">>, <<"U+4E09">>}

\* The pieces keys are built from: short strings, and runs around the
\* length of a token.
KeyParts ==
    SeqsUpTo(KeyChars, MaxUidLen)
    \cup NonAsciiUids
    \cup {Repeat(c, n) : c \in KeyChars, n \in {TokenLen - 1, TokenLen, TokenLen + 1}}

RECURSIVE JoinDash(_)
JoinDash(parts) ==
    IF Len(parts) = 1 THEN parts[1]
    ELSE parts[1] \o <<"-">> \o JoinDash(Tail(parts))

KeyInputs == {JoinDash(p) : p \in UNION {[1..n -> KeyParts] : n \in 1..MaxKeyParts}}

InitKey ==
    /\ requestType = "area"
    /\ api_key \in KeyInputs
    /\ input_csv = FALSE
    /\ verbose = FALSE
    /\ pc = "validateApiKey"
    /\ jsonTemplate = JNull
    /\ fieldnames = <<>>
    /\ recordsRead = 0
    /\ csvInputList = <<>>
    /\ rowIdx = 0
    /\ loadedTemplate = JNull
    /\ sent = <<>>
    /\ outcomes = <<>>
    /\ stdout = <<>>
    /\ exitKind = "running"
    /\ exitMsg = ""

NextKey == ValidateApiKey

SpecKey == InitKey /\ [][NextKey]_vars

(***************************************************************************)
(* The body of the row loop (lines 57-59) alone, over rows that need not   *)
(* have passed __validateCsv.                                              *)
(***************************************************************************)
MergeKeys == Headers \cup {<<"c", ".", "b">>, <<"a", ".">>}

MergeItems == {<<k, v>> : k \in MergeKeys, v \in Values}

\* Dicts of one to MaxCols items: no key twice.
MergeRows ==
    {r \in SeqsUpTo(MergeItems, MaxCols) :
        /\ r # <<>>
        /\ \A i, j \in 1..Len(r) : i # j => r[i][1] # r[j][1]}

InitMerge ==
    /\ requestType = "area"
    /\ api_key = ValidKey
    /\ input_csv = TRUE
    /\ verbose = FALSE
    /\ pc = "customise"
    /\ jsonTemplate \in Templates
    /\ loadedTemplate = jsonTemplate
    /\ fieldnames = <<>>
    /\ recordsRead = 0
    /\ \E r \in MergeRows : csvInputList = <<r>>
    /\ rowIdx = 1
    /\ sent = <<>>
    /\ outcomes = <<>>
    /\ stdout = <<>>
    /\ exitKind = "running"
    /\ exitMsg = ""

NextMerge == Customise \/ Calculate \/ ProcessCompleted

SpecMerge == InitMerge /\ [][NextMerge]_vars

(***************************************************************************)
(* Properties.                                                             *)
(***************************************************************************)
Is200(o) == o.kind = "response" /\ o.status = 200

AllOk(n) == \A i \in 1..n : Is200(outcomes[i])

Batch == UseCsvRows(input_csv, csvInputList) /\ pc \notin {"validateCsv", "validateCsvRows"}

C1_State ==
    /\ Len(outcomes) = Len(sent)
    /\ \A j \in 1..Len(sent) : AllOk(j - 1)
    /\ Batch => \A j \in 1..Len(sent) : sent[j].row = j
    /\ (sent # <<>> /\ ~AllOk(Len(sent))) => (pc = "exited" /\ exitMsg # "ProcessCompleted")

C1_Step ==
    (pc = "calculate" /\ Batch) =>
        /\ sent' = Append(sent, [row |-> rowIdx, body |-> jsonTemplate])
        /\ IF Is200(outcomes'[Len(outcomes')])
           THEN IF rowIdx < Len(csvInputList)
                THEN pc' = "customise" /\ rowIdx' = rowIdx + 1
                ELSE pc' = "completed"
           ELSE pc' = "exited"

\* C1: in a batch run the rows are dispatched one after the other, in row
\* order; a request is sent for a row only if every earlier request returned
\* 200; a 200 for row i moves the run on to row i+1, and the first response
\* that is not 200 ends the run, so that no later row is ever requested.
C1_FirstNon200StopsBatch == []C1_State /\ [][C1_Step]_vars

\* A two-row batch whose first request returned 401 and that has ended.
C1_Witness ==
    /\ pc = "exited"
    /\ Len(csvInputList) = 2
    /\ Len(sent) = 1
    /\ outcomes[1].status = 401
    /\ exitMsg = "Unauthorized"

DashCount(key) == Cardinality({i \in 1..Len(key) : key[i] = "-"})

\* The shape <digits>-<40 characters>, stated on the characters of the key.
WellFormedKey(key) ==
    \E p \in 1..Len(key) :
        /\ key[p] = "-"
        /\ DashCount(key) = 1
        /\ p > 1
        /\ \A i \in 1..(p - 1) : key[i] \in NumericChars
        /\ Len(key) - p = 40

C10_State ==
    pc # "validateApiKey" =>
        IF WellFormedKey(api_key)
        THEN pc = "validateFiles" /\ exitKind = "running"
        ELSE pc = "exited" /\ exitKind = "sys.exit" /\ exitMsg = "InvalidApiKeyFormat"

\* C10: __validateApiKey accepts a key exactly when splitting it on '-' gives
\* two parts, the first all-numeric (so non-empty; numeric as str.isnumeric
\* has it, which takes "²" or "½" as well as the ASCII digits) and
\* the second of exactly 40 characters; every other key ends the process with InvalidApiKeyFormat;
\* the key itself is never changed.
C10_ApiKeyShape == []C10_State /\ [][api_key' = api_key]_vars

\* A key with a numeric UID and a 40-character token that was accepted.
C10_Witness ==
    /\ pc = "validateFiles"
    /\ api_key = ValidKey

(***************************************************************************)
(* Dot-notation keys read off their characters, for the properties below.  *)
(***************************************************************************)
DotCount(key) == Cardinality({i \in 1..Len(key) : key[i] = "."})

Depth(key) == DotCount(key) + 1

FirstDot(key) == CHOOSE p \in 1..Len(key) : key[p] = "." /\ \A q \in 1..(p - 1) : key[q] # "."

ParentOf(key) == SubSeq(key, 1, FirstDot(key) - 1)

ChildOf(key) == SubSeq(key, FirstDot(key) + 1, Len(key))

IsObject(j) == j.type = "object"

\* template[a] is a mapping that can hold a nested field.
ParentFit(template, key) ==
    /\ IsObject(template)
    /\ ParentOf(key) \in DOMAIN template.o
    /\ IsObject(template.o[ParentOf(key)])

RowKeys(row) == {row[i][1] : i \in 1..Len(row)}

\* The run got past every validator and ended without a response other
\* than 200: by the final sys.exit, or by an exception out of the merger.
EndedAfterValidation ==
    /\ pc = "exited"
    /\ \/ exitMsg = "ProcessCompleted"
       \/ exitKind = "traceback" /\ exitMsg \in {"TypeError", "KeyError"}

\* C2: the loaded template is read-only: the body sent for row i is the
\* loaded template with row i's overrides applied, and row i's overrides
\* fail in the run only if they fail on the loaded template, whatever rows
\* 1..i-1 were.
C2_RowsStartFromLoadedTemplate ==
    Batch =>
        /\ \A j \in 1..Len(sent) :
             LET r == customiseJsonFromCsvRow(loadedTemplate, csvInputList[sent[j].row]) IN
             r.err = "" /\ sent[j].body = r.val
        /\ (pc = "exited" /\ exitKind = "traceback" /\ exitMsg \in {"TypeError", "KeyError"})
             => customiseJsonFromCsvRow(loadedTemplate, csvInputList[rowIdx]).err # ""

ValidationExits ==
    {"UnsupportedRequestType", "InvalidApiKeyFormat", "FileNotFound", "PermissionDenied",
     "InvalidJson", "MalformedCsvRow", "ExcessiveNestingDepth", "UnknownError"}

RowWellFormed(row) ==
    \A i \in 1..Len(row) :
        /\ row[i][1] \notin {<<>>, PyNone}
        /\ row[i][2] \notin {<<>>, PyNone}
        /\ Depth(row[i][1]) <= 2

\* C3: no request is sent unless every validator has passed over the whole
\* input: a run that a validator ends (unsupported request type, bad API
\* key, missing or unreadable or non-JSON template, a CSV row with an empty
\* header or value or a header deeper than 2, wherever the row stands) has
\* sent nothing, and once a request has been sent the request type is
\* allowed, the key well formed, the template loaded, the CSV read to its
\* end and every row of it well formed.
C3_NoRequestBeforeValidation ==
    /\ (pc = "exited" /\ exitMsg \in ValidationExits) => sent = <<>>
    /\ pc \in {"validateRequestType", "validateApiKey", "validateFiles",
               "validateJsonTemplate", "validateCsv", "validateCsvRows"} => sent = <<>>
    /\ sent # <<>> =>
         /\ requestType = "area"
         /\ WellFormedKey(api_key)
         /\ loadedTemplate # JNull
         /\ \A i \in 1..Len(csvInputList) : RowWellFormed(csvInputList[i])

\* A CSV whose first row passed and whose second, last row has an empty
\* value: the run ended with nothing sent.
C3_Witness ==
    /\ pc = "exited"
    /\ exitMsg = "MalformedCsvRow"
    /\ Len(csvInputList) = 1
    /\ recordsRead = 2
    /\ sent = <<>>

\* C4: on a template that is a mapping, a row whose first key is a
\* two-segment key a.b sets template[a][b] when template[a] is a mapping,
\* and otherwise (template[a] absent, or a string, number or list) ends the
\* run with the classified error InvalidOverridePath, a sys.exit and not an
\* uncaught exception, without a request for the row.
C4_InvalidOverridePath ==
    [][(pc = "customise" /\ IsObject(jsonTemplate)
                         /\ Depth(csvInputList[rowIdx][1][1]) = 2) =>
          LET key == csvInputList[rowIdx][1][1]
              value == csvInputList[rowIdx][1][2] IN
          IF ParentFit(jsonTemplate, key)
          THEN Len(csvInputList[rowIdx]) = 1 =>
                 /\ pc' = "calculate"
                 /\ jsonTemplate'.o[ParentOf(key)].o[ChildOf(key)] = JStr(value)
          ELSE /\ pc' = "exited"
               /\ exitKind' = "sys.exit"
               /\ exitMsg' = "InvalidOverridePath"
               /\ sent' = sent]_vars

\* C5: the depth of a key alone decides what its override does, whatever the
\* value.  For the first key of a row, on a template that is a mapping: at
\* depth 1 the root field template[k] is the value; at depth 2, with
\* template[a] a mapping, the nested field template[a][b] is the value; at
\* depth 3 or more the run ends with ExcessiveNestingDepth, the template as
\* it was.  A row with a key deeper than 2 anywhere never gets a request.
C5_Step ==
    pc = "customise" =>
        LET row == csvInputList[rowIdx]
            key == row[1][1]
            value == row[1][2] IN
        /\ (Depth(key) = 1 /\ IsObject(jsonTemplate) /\ Len(row) = 1) =>
             /\ pc' = "calculate"
             /\ jsonTemplate'.o[key] = JStr(value)
        /\ (Depth(key) = 2 /\ ParentFit(jsonTemplate, key) /\ Len(row) = 1) =>
             /\ pc' = "calculate"
             /\ jsonTemplate'.o[ParentOf(key)].o[ChildOf(key)] = JStr(value)
        /\ Depth(key) > 2 =>
             /\ pc' = "exited"
             /\ exitKind' = "sys.exit"
             /\ exitMsg' = "ExcessiveNestingDepth"
             /\ jsonTemplate' = jsonTemplate
        /\ (\E k \in RowKeys(row) : Depth(k) > 2) =>
             /\ pc' = "exited"
             /\ sent' = sent

C5_State ==
    /\ exitMsg = "ExcessiveNestingDepth" => sent = <<>>
    /\ \A j \in 1..Len(sent) :
         \A k \in RowKeys(csvInputList[sent[j].row]) : Depth(k) <= 2

C5_DepthDecidesOverride == []C5_State /\ [][C5_Step]_vars

\* A row whose key a.b.c ended the run with ExcessiveNestingDepth, the
\* template untouched and nothing sent.
C5_Witness ==
    /\ pc = "exited"
    /\ exitMsg = "ExcessiveNestingDepth"
    /\ csvInputList[1][1][1] = K_abc
    /\ jsonTemplate = loadedTemplate
    /\ sent = <<>>
\* The field a key names holds exactly the string.
FieldHolds(template, key, value) ==
    /\ IsObject(template)
    /\ IF Depth(key) = 1
       THEN key \in DOMAIN template.o /\ template.o[key] = JStr(value)
       ELSE /\ ParentFit(template, key)
            /\ ChildOf(key) \in DOMAIN template.o[ParentOf(key)].o
            /\ template.o[ParentOf(key)].o[ChildOf(key)] = JStr(value)

\* The nested field parent.child is as it was in before.
NestedKept(before, after, parent, child) ==
    /\ IsObject(after)
    /\ parent \in DOMAIN after.o
    /\ child \in DOMAIN after.o[parent].o
    /\ after.o[parent].o[child] = before.o[parent].o[child]

NestedKeys(row) == {k \in RowKeys(row) : Depth(k) = 2}

Parents(row) == {ParentOf(k) : k \in NestedKeys(row)}

\* C6 as stated: once a row's overrides are applied, every field a key of
\* the row names holds exactly the raw CSV string, every root-level field
\* no key names keeps its value, and so does every sibling of a nested
\* field the row names.
C6_OnlyNamedFieldsChange ==
    [][(pc = "customise" /\ pc' = "calculate") =>
          LET row == csvInputList[rowIdx] IN
          /\ \A i \in 1..Len(row) : FieldHolds(jsonTemplate', row[i][1], row[i][2])
          /\ \A r \in DOMAIN jsonTemplate.o :
               r \notin RowKeys(row) \cup Parents(row) =>
                   r \in DOMAIN jsonTemplate'.o /\ jsonTemplate'.o[r] = jsonTemplate.o[r]
          /\ \A k \in NestedKeys(row) :
               \A c \in DOMAIN jsonTemplate.o[ParentOf(k)].o :
                   (\A k2 \in NestedKeys(row) : ParentOf(k2) = ParentOf(k) => ChildOf(k2) # c)
                   => NestedKept(jsonTemplate, jsonTemplate', ParentOf(k), c)]_vars

\* C6 amended: the same, for every root-level key of the row, and for every
\* nested key a.b of the row whose parent a is not itself a key of the row
\* (the assignment to a replaces the mapping as a whole); no field appears
\* that no key of the row names.
C6_OnlyNamedFieldsChangeUnlessParentReplaced ==
    [][(pc = "customise" /\ pc' = "calculate") =>
          LET row == csvInputList[rowIdx] IN
          /\ \A i \in 1..Len(row) :
               (Depth(row[i][1]) = 1 \/ ParentOf(row[i][1]) \notin RowKeys(row))
               => FieldHolds(jsonTemplate', row[i][1], row[i][2])
          /\ \A r \in DOMAIN jsonTemplate.o :
               r \notin RowKeys(row) \cup Parents(row) =>
                   r \in DOMAIN jsonTemplate'.o /\ jsonTemplate'.o[r] = jsonTemplate.o[r]
          /\ DOMAIN jsonTemplate'.o = DOMAIN jsonTemplate.o \cup (RowKeys(row) \ NestedKeys(row))
          /\ \A k \in NestedKeys(row) :
               ParentOf(k) \notin RowKeys(row) =>
                   /\ \A c \in DOMAIN jsonTemplate.o[ParentOf(k)].o :
                        (\A k2 \in NestedKeys(row) :
                             ParentOf(k2) = ParentOf(k) => ChildOf(k2) # c)
                        => NestedKept(jsonTemplate, jsonTemplate', ParentOf(k), c)
                   /\ DOMAIN jsonTemplate'.o[ParentOf(k)].o =
                        DOMAIN jsonTemplate.o[ParentOf(k)].o
                        \cup {ChildOf(k2) : k2 \in {x \in NestedKeys(row) :
                                                      ParentOf(x) = ParentOf(k)}}]_vars

\* The row {a.b: "x"} applied to {a: {b: 1, c: 2}, b: 2}: a.b is the string
\* "x", a.c and b are as they were.
C6_Witness ==
    /\ pc = "calculate"
    /\ loadedTemplate = TplObjA
    /\ csvInputList = << << <<K_ab, <<"x">> >> >> >>
    /\ jsonTemplate.o[K_a].o[K_b] = JStr(<<"x">>)
    /\ jsonTemplate.o[K_a].o[K_c] = JNum(<<"2">>)
    /\ jsonTemplate.o[K_b] = JNum(<<"2">>)

\* C7: when a CSV was given and validated to n rows (any n >= 0) and every
\* response was 200, the run has dispatched exactly n requests, the i-th for
\* row i with row i's overrides, none twice and none without a row.
C7_OneRequestPerRow ==
    (input_csv /\ EndedAfterValidation /\ AllOk(Len(outcomes))) =>
        /\ Len(sent) = Len(csvInputList)
        /\ \A i \in 1..Len(sent) :
             /\ sent[i].row = i
             /\ \A m \in 1..Len(csvInputList[i]) :
                  FieldHolds(sent[i].body, csvInputList[i][m][1], csvInputList[i][m][2])

\* C8: without a CSV, a run that got past the validators dispatches exactly
\* one request, whose body is the template as it was loaded.
C8_NoCsvSendsTemplateOnce ==
    /\ ~input_csv => Len(sent) <= 1
    /\ (~input_csv /\ loadedTemplate # JNull /\ pc \in {"completed", "exited"}) =>
         /\ Len(sent) = 1
         /\ sent[1].body = loadedTemplate
         /\ sent[1].row = 0

\* A run without CSV that ended with "Process completed" after its one
\* request, the template {a: {b: 1, c: 2}, b: 2} as its body.
C8_Witness ==
    /\ ~input_csv
    /\ pc = "exited"
    /\ exitMsg = "ProcessCompleted"
    /\ Len(sent) = 1
    /\ sent[1].body = TplObjA

CategoryOf(status) ==
    CASE status = 400 -> "BadRequest"
      [] status = 401 -> "Unauthorized"
      [] status = 403 -> "Forbidden"
      [] status = 500 -> "ServerError"
      [] OTHER -> "UnknownHttpError"

HttpCategories == {"BadRequest", "Unauthorized", "Forbidden", "ServerError", "UnknownHttpError"}

\* C9: every response is classified by its status alone: 200 is a success
\* and does not end the run; 400, 401, 403, 500 and any other status end it
\* with BadRequest, Unauthorized, Forbidden, ServerError and
\* UnknownHttpError; before that exit the raw response body is printed, and
\* such a run never reaches the final "Process completed".
C9_ClassifierTable ==
    /\ exitMsg \in HttpCategories =>
         /\ sent # <<>>
         /\ outcomes[Len(outcomes)].kind = "response"
         /\ outcomes[Len(outcomes)].status # 200
    /\ outcomes # <<>> =>
         LET last == outcomes[Len(outcomes)] IN
         /\ (last.kind = "response" /\ last.status # 200) =>
              /\ pc = "exited"
              /\ exitKind = "sys.exit"
              /\ exitMsg = CategoryOf(last.status)
              /\ exitMsg # "ProcessCompleted"
              /\ Len(stdout) >= 2
              /\ stdout[Len(stdout) - 1].kind = "http_error"
              /\ stdout[Len(stdout) - 1].status = last.status
              /\ stdout[Len(stdout)].kind = "raw"
              /\ stdout[Len(stdout)].text = last.text
         /\ Is200(last) => exitMsg \notin HttpCategories
         /\ (Is200(last) /\ Len(sent) = Len(outcomes) /\ pc = "exited" /\ exitKind = "sys.exit")
              => exitMsg = "ProcessCompleted"

\* A response 404, outside the table: the run ended with UnknownHttpError
\* after printing the body "no".
C9_Witness ==
    /\ pc = "exited"
    /\ exitMsg = "UnknownHttpError"
    /\ outcomes[Len(outcomes)].status = 404
    /\ stdout[Len(stdout)].text = <<"n", "o">>
====
